---- MODULE Spec2Model ----
(***************************************************************************)
(* Model of Streamlit.py, the post-operative care chat front-end.          *)
(*                                                                         *)
(* One Streamlit session is modelled.  The script is re-executed on every  *)
(* user interaction; st.session_state (messages, pdf_contents,             *)
(* protocols_text) survives between runs.  A run that receives a chat      *)
(* input blocks inside client.messages.stream until the provider's text    *)
(* stream ends or raises, so the provider's events (one text increment,    *)
(* end of stream, exception) are the steps of that run.                    *)
(*                                                                         *)
(* Spec and LiveSpec are the turns of one session after its start-up.      *)
(* StartupSpec is the start-up (lines 19-84) of the sessions of one        *)
(* process, which share the st.cache_data stores of the two loaders.       *)
(*                                                                         *)
(* Encoding of Python values:                                              *)
(*   str            a sequence of one-character strings ("" is << >>)      *)
(*   None           the one-element sequence <<"None">> (not a str)        *)
(*   message content of the API payload, which is a str in one branch and  *)
(*   a list in the other, carries its Python type: PyStr(s), PyList(l)     *)
(*   system prompt / protocol text   a sequence of tokens                  *)
(***************************************************************************)
EXTENDS Integers, Sequences, FiniteSets, TLC

(* ---------------------------- bounds ----------------------------------- *)
MaxCalls == 2        \* provider calls issued in the modelled session
MaxIncs == 2         \* text increments of one provider stream
MaxDocs == 2         \* *.pdf files in postop_handouts/
MaxProtocols == 2    \* *.txt files in protocols/
MaxSessions == 2     \* sessions of the process that run their start-up

(* ---------------------------- values ----------------------------------- *)
None == <<"None">>

\* the values st.chat_input can hand to a run: nothing submitted, the empty
\* string, whitespace only, text
PromptInputs == {None, <<>>, <<" ">>, <<"a">>}

\* the text increments a provider stream can yield after the increments
\* `sofar`: the modelled provider answers "a", " b", "c", "c", ... and may
\* end or fail after any of them
TextDeltas == {<<"a">>, <<" ", "b">>, <<"c">>}

NextTextDelta(sofar) ==
    IF Len(sofar) = 0 THEN <<"a">>
    ELSE IF Len(sofar) = 1 THEN <<" ", "b">>
    ELSE <<"c">>

\* the exceptions client.messages.stream can raise, as str(e)
ProviderErrors == {"rate_limit_error"}

Marker == <<"▌">>

Instructions == "You are a helpful post-operative care assistant ..."

ProtocolsHeader == "\n\nAdditional Protocols:\n"

\* the directory listing of protocols/*.txt, each file with its content
ProtocolListing ==
    << [name |-> "wound_care.txt", text |-> <<"Keep", " ", "dry">>],
       [name |-> "pt_schedule.txt", text |-> <<"Week", " ", "1">>],
       [name |-> "notes.txt", text |-> << >>] >>

Min(a, b) == IF a < b THEN a ELSE b

\* the first n files of protocols/
ProtocolFiles(n) == SubSeq(ProtocolListing, 1, Min(n, Len(ProtocolListing)))

\* the first k files of postop_handouts/*.pdf; file i holds the bytes i
PdfFiles(k) == [i \in 1..k |-> i]

(* ------------------------ Python helpers -------------------------------- *)
\* bool(x) for x a str or None
Truthy(x) == x # None /\ x # <<>>

PyStr(s) == [py |-> "str", val |-> s]

PyList(l) == [py |-> "list", val |-> l]

\* base64.b64encode(pdf_data).decode()
B64Encode(data) == <<"base64", data>>

(* --------------------------- the client --------------------------------- *)
\* the values of the credential variable: unset, empty, set
ApiKeys == {None, << >>, <<"k">>}

ConfigError == "ANTHROPIC_API_KEY environment variable not set!"

\* mutant: the error is shown but the script is not stopped
get_client_NoStop(key) == [stopped |-> FALSE, api_key |-> key]

\* get_client: st.error and st.stop() without a key, else the client
get_client(key) ==
    IF ~Truthy(key)
    THEN [stopped |-> TRUE, api_key |-> None]
    ELSE [stopped |-> FALSE, api_key |-> key]

(* ------------------------- the loaders ---------------------------------- *)
DocumentItem(pdf_data) ==
    [type |-> "document",
     source |-> [type |-> "base64", media_type |-> "application/pdf",
                 data |-> B64Encode(pdf_data)],
     cache_control |-> [type |-> "ephemeral"]]

load_pdfs(dirExists, pdf_files) ==
    IF ~dirExists THEN << >>
    ELSE IF pdf_files = << >> THEN << >>
    ELSE [i \in 1..Len(pdf_files) |-> DocumentItem(pdf_files[i])]

ProtocolSection(f) ==
    <<"\n\n", "===", " ", f.name, " ", "===", "\n\n">> \o f.text

RECURSIVE ConcatProtocols(_)
ConcatProtocols(files) ==
    IF files = << >> THEN << >>
    ELSE ConcatProtocols(SubSeq(files, 1, Len(files) - 1))
            \o ProtocolSection(files[Len(files)])

load_protocols(dirExists, protocol_files) ==
    IF ~dirExists THEN << >>
    ELSE IF protocol_files = << >> THEN << >>
    ELSE ConcatProtocols(protocol_files)

(* ----------------------- context assembly ------------------------------- *)
\* mutant: the protocols are never added to the instruction block
SystemMessage_InstructionsOnly(protocols) == <<Instructions>>

SystemMessage(protocols) ==
    IF protocols # << >>
    THEN <<Instructions>> \o <<ProtocolsHeader>> \o protocols
    ELSE <<Instructions>>

TextItem(s) == [type |-> "text", text |-> s]

\* mutant: the text item is inserted before the documents
FirstMessageContent_TextFirst(msgs, pdfs) ==
    <<TextItem(msgs[1].content)>> \o pdfs

\* first_message_content: a copy of the documents, then the text item
FirstMessageContent(msgs, pdfs) == Append(pdfs, TextItem(msgs[1].content))

\* mutant: without .copy() the append goes to the session's own list
SessionPdfsAfterAppend_Aliased(pdfs, item) == Append(pdfs, item)

\* st.session_state.pdf_contents after first_message_content.append(item):
\* first_message_content is a copy (line 124), the session's list is not touched
SessionPdfsAfterAppend(pdfs, item) == pdfs

\* mutant: every entry is sent with the role of the submitter
PlainMessages_AllUser(msgs) ==
    [i \in 1..Len(msgs) |->
        [role |-> "user", content |-> PyStr(msgs[i].content)]]

\* the else branch: one plain entry per Turn
PlainMessages(msgs) ==
    [i \in 1..Len(msgs) |->
        [role |-> msgs[i].role, content |-> PyStr(msgs[i].content)]]

\* mutant: the documents are attached to the first entry of every call
BuildApiMessages_DocsEveryCall(msgs, pdfs) ==
    << [role |-> "user", content |-> PyList(FirstMessageContent(msgs, pdfs))] >>
        \o Tail(PlainMessages(msgs))

\* mutant: the first-message test is off by one (taken before the append)
BuildApiMessages_LenZero(msgs, pdfs) ==
    IF Len(msgs) = 0
    THEN << [role |-> "user", content |-> PyList(FirstMessageContent(msgs, pdfs))] >>
    ELSE PlainMessages(msgs)

BuildApiMessages(msgs, pdfs) ==
    IF Len(msgs) = 1
    THEN << [role |-> "user", content |-> PyList(FirstMessageContent(msgs, pdfs))] >>
    ELSE PlainMessages(msgs)

\* the document items of one payload entry
DocItemsOfEntry(m) ==
    IF m.content.py = "list"
    THEN SelectSeq(m.content.val, LAMBDA it : it.type = "document")
    ELSE << >>

RECURSIVE DocItemsOf(_)
DocItemsOf(payload) ==
    IF payload = << >> THEN << >>
    ELSE DocItemsOfEntry(Head(payload)) \o DocItemsOf(Tail(payload))

(* ----------------------------- sidebar ---------------------------------- *)
RECURSIVE CountToken(_, _)
\* text.count(tok) on the token form of a string
CountToken(text, tok) ==
    IF text = << >> THEN 0
    ELSE (IF Head(text) = tok THEN 1 ELSE 0) + CountToken(Tail(text), tok)

\* protocol_count = st.session_state.protocols_text.count("===")
protocol_count(text) == CountToken(text, "===")

(* ---------------------------- state ------------------------------------- *)
VARIABLES
    messages,        \* st.session_state.messages, the Transcript
    pdf_contents,    \* st.session_state.pdf_contents
    protocols_text,  \* st.session_state.protocols_text
    prompt,          \* what st.chat_input returned in the latest run
    pc,              \* "Idle", "Streaming", "Committed", "Failed"
    system_message,  \* local of the latest run
    api_messages,    \* local of the latest run
    full_response,   \* local of the latest run
    placeholder,     \* text shown in message_placeholder
    error,           \* text shown by st.error in the except branch, "" if none
    streamed,        \* the increments stream.text_stream has yielded so far
    nCalls,          \* provider calls issued in the session
    convCalls,       \* provider calls issued since the Transcript was last empty
    docCalls,        \* provider calls of the session that carried document items
    convDocCalls,    \* the same, since the Transcript was last empty
    nAccepted,       \* chat inputs that entered the turn block (line 92)
    convDelivered,   \* a call carrying document items has completed since
                     \* the Transcript was last empty
    api_key,         \* os.environ.get("ANTHROPIC_API_KEY")
    pdf_dir,         \* postop_handouts/: whether it exists, its *.pdf files
    protocol_dir,    \* protocols/: whether it exists, its *.txt files
    cache,           \* the st.cache_data store of each loader
    lock,            \* the holder of each loader's compute lock, 0 if free
    scans,           \* executions of each loader's body (directory scans)
    sess             \* the start-up of the other sessions of the process

vars == <<messages, pdf_contents, protocols_text, prompt, pc, system_message,
          api_messages, full_response, placeholder, error, streamed,
          nCalls, convCalls, docCalls, convDocCalls, nAccepted,
          convDelivered, api_key,
          pdf_dir, protocol_dir, cache, lock, scans, sess>>

bundle == <<pdf_contents, protocols_text>>

counters == <<nCalls, convCalls, docCalls, convDocCalls, nAccepted,
              convDelivered>>

\* what belongs to the process and not to the session
process == <<api_key, pdf_dir, protocol_dir, cache, lock, scans, sess>>

\* the turn state of the session whose turns are modelled
chat == <<messages, pdf_contents, protocols_text, prompt, pc, system_message,
          api_messages, full_response, placeholder, error, streamed,
          nCalls, convCalls, docCalls, convDocCalls, nAccepted,
          convDelivered>>

Sessions == 1..MaxSessions

Loaders == {"load_pdfs", "load_protocols"}

\* the directories the process can find
PdfDirs ==
    {[exists |-> FALSE, files |-> << >>]}
        \cup {[exists |-> TRUE, files |-> PdfFiles(k)] : k \in 0..MaxDocs}

ProtocolDirs ==
    {[exists |-> FALSE, files |-> << >>]}
        \cup {[exists |-> TRUE, files |-> ProtocolFiles(n)] : n \in 0..MaxProtocols}

\* the body of a loader, run on the directories
RunLoader(fn) ==
    IF fn = "load_pdfs"
    THEN load_pdfs(pdf_dir.exists, pdf_dir.files)
    ELSE load_protocols(protocol_dir.exists, protocol_dir.files)

NotCached == [cached |-> FALSE, value |-> << >>]

Cached(v) == [cached |-> TRUE, value |-> v]

\* a session that has not run the script yet
NewSession == [at |-> "new", fn |-> "load_pdfs",
               pdf_contents |-> << >>, protocols_text |-> << >>]

\* the script stops at line 27, before the session state is initialised
ScriptStops == get_client(api_key).stopped

\* The session whose turns are modelled has run lines 19-84 alone: the
\* loaders were executed for it and their results are cached.
Init ==
    /\ api_key \in ApiKeys
    /\ messages = << >>
    /\ lock = [fn \in Loaders |-> 0]
    /\ sess = [s \in Sessions |-> NewSession]
    /\ IF ScriptStops
       THEN /\ pdf_dir = [exists |-> FALSE, files |-> << >>]
            /\ protocol_dir = [exists |-> FALSE, files |-> << >>]
            /\ cache = [fn \in Loaders |-> NotCached]
            /\ scans = [fn \in Loaders |-> 0]
            /\ pdf_contents = << >>
            /\ protocols_text = << >>
            /\ pc = "Halted"
            /\ error = ConfigError
       ELSE /\ pdf_dir \in PdfDirs
            /\ protocol_dir \in ProtocolDirs
            /\ cache = [fn \in Loaders |-> Cached(RunLoader(fn))]
            /\ scans = [fn \in Loaders |-> 1]
            /\ pdf_contents = cache["load_pdfs"].value
            /\ protocols_text = cache["load_protocols"].value
            /\ pc = "Idle"
            /\ error = ""
    /\ prompt = None
    /\ system_message = << >>
    /\ api_messages = << >>
    /\ full_response = << >>
    /\ placeholder = << >>
    /\ streamed = << >>
    /\ nCalls = 0
    /\ convCalls = 0
    /\ docCalls = 0
    /\ convDocCalls = 0
    /\ nAccepted = 0
    /\ convDelivered = FALSE

\* the script is not inside the streaming call: the host delivers interactions
AcceptsInput == ~ScriptStops /\ pc # "Streaming"

(* ---------------------------- actions ----------------------------------- *)
\* mutant: the payload is built before the user Turn is appended
ChatInput_BuildBeforeAppend(p) ==
    /\ AcceptsInput
    /\ UNCHANGED process
    /\ prompt' = p
    /\ placeholder' = << >>
    /\ error' = ""
    /\ full_response' = << >>
    /\ streamed' = << >>
    /\ UNCHANGED protocols_text
    /\ IF Truthy(p)
       THEN /\ nCalls < MaxCalls
            /\ nAccepted' = nAccepted + 1
            /\ UNCHANGED convDelivered
            /\ messages' = Append(messages, [role |-> "user", content |-> p])
            /\ system_message' = SystemMessage(protocols_text)
            /\ api_messages' = BuildApiMessages(messages, pdf_contents)
            /\ pdf_contents' =
                  IF Len(messages') = 1
                  THEN SessionPdfsAfterAppend(pdf_contents, TextItem(p))
                  ELSE pdf_contents
            /\ pc' = "Streaming"
            /\ nCalls' = nCalls + 1
            /\ convCalls' = convCalls + 1
            /\ LET d == IF DocItemsOf(api_messages') # << >> THEN 1 ELSE 0
               IN  /\ docCalls' = docCalls + d
                   /\ convDocCalls' = convDocCalls + d
       ELSE /\ pc' = "Idle"
            /\ system_message' = << >>
            /\ api_messages' = << >>
            /\ UNCHANGED <<messages, pdf_contents, counters>>

\* A run of the script with p the value of st.chat_input: up to the opening
\* of the provider stream when p is truthy, to the end of the script otherwise.
ChatInput(p) ==
    /\ AcceptsInput
    /\ UNCHANGED process
    /\ prompt' = p
    /\ placeholder' = << >>
    /\ error' = ""
    /\ full_response' = << >>
    /\ streamed' = << >>
    /\ UNCHANGED protocols_text
    /\ IF Truthy(p)
       THEN /\ nCalls < MaxCalls
            /\ nAccepted' = nAccepted + 1
            /\ UNCHANGED convDelivered
            /\ messages' = Append(messages, [role |-> "user", content |-> p])
            /\ system_message' = SystemMessage(protocols_text)
            /\ api_messages' = BuildApiMessages(messages', pdf_contents)
            /\ pdf_contents' =
                  IF Len(messages') = 1
                  THEN SessionPdfsAfterAppend(pdf_contents, TextItem(p))
                  ELSE pdf_contents
            /\ pc' = "Streaming"
            /\ nCalls' = nCalls + 1
            /\ convCalls' = convCalls + 1
            /\ LET d == IF DocItemsOf(api_messages') # << >> THEN 1 ELSE 0
               IN  /\ docCalls' = docCalls + d
                   /\ convDocCalls' = convDocCalls + d
       ELSE /\ pc' = "Idle"
            /\ system_message' = << >>
            /\ api_messages' = << >>
            /\ UNCHANGED <<messages, pdf_contents, counters>>

\* mutant: the increment is put in front of the accumulated text
StreamText_Prepend(text) ==
    /\ pc = "Streaming"
    /\ UNCHANGED process
    /\ Len(streamed) < MaxIncs
    /\ text = NextTextDelta(streamed)
    /\ streamed' = Append(streamed, text)
    /\ full_response' = text \o full_response
    /\ placeholder' = full_response' \o Marker
    /\ UNCHANGED <<messages, bundle, prompt, pc, system_message, api_messages,
                   error, counters>>

\* mutant: the commit of line 157 is indented into the loop
StreamText_CommitsInLoop(text) ==
    /\ pc = "Streaming"
    /\ UNCHANGED process
    /\ Len(streamed) < MaxIncs
    /\ text = NextTextDelta(streamed)
    /\ streamed' = Append(streamed, text)
    /\ full_response' = full_response \o text
    /\ placeholder' = full_response' \o Marker
    /\ messages' = Append(messages, [role |-> "assistant", content |-> full_response'])
    /\ UNCHANGED <<bundle, prompt, pc, system_message, api_messages,
                   error, counters>>

\* for text in stream.text_stream: one increment
StreamText(text) ==
    /\ pc = "Streaming"
    /\ UNCHANGED process
    /\ Len(streamed) < MaxIncs
    /\ text = NextTextDelta(streamed)
    /\ streamed' = Append(streamed, text)
    /\ full_response' = full_response \o text
    /\ placeholder' = full_response' \o Marker
    /\ UNCHANGED <<messages, bundle, prompt, pc, system_message, api_messages,
                   error, counters>>

\* the stream ends: final render and commit of the assistant Turn
StreamComplete ==
    /\ pc = "Streaming"
    /\ UNCHANGED process
    /\ placeholder' = full_response
    /\ messages' = Append(messages, [role |-> "assistant", content |-> full_response])
    /\ pc' = "Committed"
    /\ convDelivered' = (convDelivered \/ DocItemsOf(api_messages) # << >>)
    /\ UNCHANGED <<bundle, prompt, system_message, api_messages, full_response,
                   error, streamed, nCalls, convCalls, docCalls, convDocCalls,
                   nAccepted>>

\* mutant: the except branch commits the text received so far
StreamError_CommitsPartial ==
    /\ pc = "Streaming"
    /\ UNCHANGED process
    /\ \E e \in ProviderErrors : error' = e
    /\ pc' = "Failed"
    /\ messages' = Append(messages, [role |-> "assistant", content |-> full_response])
    /\ UNCHANGED <<bundle, prompt, system_message, api_messages,
                   full_response, placeholder, streamed, counters>>

\* mutant: the except branch takes the failed user Turn back
StreamError_DropsUserTurn ==
    /\ pc = "Streaming"
    /\ UNCHANGED process
    /\ \E e \in ProviderErrors : error' = e
    /\ pc' = "Failed"
    /\ messages' = SubSeq(messages, 1, Len(messages) - 1)
    /\ UNCHANGED <<bundle, prompt, system_message, api_messages,
                   full_response, placeholder, streamed, counters>>

\* mutant: the exception is not caught and the script is halted for good
StreamError_Halts ==
    /\ pc = "Streaming"
    /\ UNCHANGED process
    /\ \E e \in ProviderErrors : error' = e
    /\ pc' = "Halted"
    /\ UNCHANGED <<messages, bundle, prompt, system_message, api_messages,
                   full_response, placeholder, streamed, counters>>

\* mutant: the except branch issues the call again
StreamError_Retries ==
    /\ pc = "Streaming"
    /\ UNCHANGED process
    /\ \E e \in ProviderErrors : error' = e
    /\ nCalls < MaxCalls
    /\ nCalls' = nCalls + 1
    /\ convCalls' = convCalls + 1
    /\ full_response' = << >>
    /\ streamed' = << >>
    /\ UNCHANGED <<messages, bundle, prompt, pc, system_message, api_messages,
                   placeholder, docCalls, convDocCalls, nAccepted,
                   convDelivered>>

\* the stream (or its opening) raises: except Exception as e
StreamError ==
    /\ pc = "Streaming"
    /\ UNCHANGED process
    /\ \E e \in ProviderErrors : error' = e
    /\ pc' = "Failed"
    /\ UNCHANGED <<messages, bundle, prompt, system_message, api_messages,
                   full_response, placeholder, streamed, counters>>

\* the Clear Chat History button: reset, then st.rerun() runs the script
\* again with no input
ClearHistory ==
    /\ AcceptsInput
    /\ UNCHANGED process
    /\ messages' = << >>
    /\ prompt' = None
    /\ pc' = "Idle"
    /\ system_message' = << >>
    /\ api_messages' = << >>
    /\ full_response' = << >>
    /\ placeholder' = << >>
    /\ error' = ""
    /\ streamed' = << >>
    /\ convCalls' = 0
    /\ convDocCalls' = 0
    /\ convDelivered' = FALSE
    /\ UNCHANGED <<bundle, nCalls, docCalls, nAccepted>>

Next ==
    \/ \E p \in PromptInputs : ChatInput(p)
    \/ \E text \in TextDeltas : StreamText(text)
    \/ StreamComplete
    \/ StreamError
    \/ ClearHistory

Spec == Init /\ [][Next]_vars

\* the provider stream is finite: it ends with completion or with an error
StreamEnds == StreamComplete \/ StreamError

LiveSpec == Spec /\ WF_vars(StreamEnds)

(* ------------------- start-up of the sessions of a process ------------- *)
\* mutant: load_protocols is left without its decorator
Memoized_PdfsOnly(fn) == fn = "load_pdfs"

\* @st.cache_data on load_pdfs and on load_protocols
Memoized(fn) == fn \in {"load_pdfs", "load_protocols"}

\* where a call of loader fn begins: in the cache wrapper, or in the body
EntryStage(fn) == IF Memoized(fn) THEN "read" ELSE "compute"

\* session s after its current loader has returned v (lines 83, 84)
Returned(s, v) ==
    IF sess[s].fn = "load_pdfs"
    THEN [sess[s] EXCEPT !.pdf_contents = v, !.fn = "load_protocols",
                         !.at = EntryStage("load_protocols")]
    ELSE [sess[s] EXCEPT !.protocols_text = v, !.at = "ready"]

\* No session has started; the directories are as the process finds them.
StartupInit ==
    /\ api_key = <<"k">>
    /\ pdf_dir \in PdfDirs
    /\ protocol_dir \in ProtocolDirs
    /\ cache = [fn \in Loaders |-> NotCached]
    /\ lock = [fn \in Loaders |-> 0]
    /\ scans = [fn \in Loaders |-> 0]
    /\ sess = [s \in Sessions |-> NewSession]
    /\ messages = << >>
    /\ pdf_contents = << >>
    /\ protocols_text = << >>
    /\ prompt = None
    /\ pc = "Idle"
    /\ system_message = << >>
    /\ api_messages = << >>
    /\ full_response = << >>
    /\ placeholder = << >>
    /\ error = ""
    /\ streamed = << >>
    /\ nCalls = 0
    /\ convCalls = 0
    /\ docCalls = 0
    /\ convDocCalls = 0
    /\ nAccepted = 0
    /\ convDelivered = FALSE

\* first run of the script in session s: "pdf_contents" is not in its
\* session state, load_pdfs() is called
SessionStart(s) ==
    /\ sess[s].at = "new"
    /\ sess' = [sess EXCEPT ![s].fn = "load_pdfs",
                            ![s].at = EntryStage("load_pdfs")]
    /\ UNCHANGED <<chat, api_key, pdf_dir, protocol_dir, cache, lock, scans>>

\* the cache wrapper looks the value up: a hit returns it, a miss goes on
\* to the compute lock
CacheRead(s) ==
    /\ sess[s].at = "read"
    /\ sess' = [sess EXCEPT ![s] =
                  IF cache[sess[s].fn].cached
                  THEN Returned(s, cache[sess[s].fn].value)
                  ELSE [sess[s] EXCEPT !.at = "wait"]]
    /\ UNCHANGED <<chat, api_key, pdf_dir, protocol_dir, cache, lock, scans>>

\* the wrapper takes the loader's compute lock
CacheLock(s) ==
    /\ sess[s].at = "wait"
    /\ lock[sess[s].fn] = 0
    /\ lock' = [lock EXCEPT ![sess[s].fn] = s]
    /\ sess' = [sess EXCEPT ![s].at = "locked"]
    /\ UNCHANGED <<chat, api_key, pdf_dir, protocol_dir, cache, scans>>

\* under the lock the wrapper looks again: another session may have
\* computed the value meanwhile
CacheReread(s) ==
    /\ sess[s].at = "locked"
    /\ IF cache[sess[s].fn].cached
       THEN /\ sess' = [sess EXCEPT ![s] = Returned(s, cache[sess[s].fn].value)]
            /\ lock' = [lock EXCEPT ![sess[s].fn] = 0]
       ELSE /\ sess' = [sess EXCEPT ![s].at = "compute"]
            /\ UNCHANGED lock
    /\ UNCHANGED <<chat, api_key, pdf_dir, protocol_dir, cache, scans>>

\* the body of the loader runs: the directory is scanned; a memoized
\* loader's result is stored and its lock released
LoaderBody(s) ==
    /\ sess[s].at = "compute"
    /\ LET fn == sess[s].fn
           v == RunLoader(fn)
       IN  /\ scans' = [scans EXCEPT ![fn] = @ + 1]
           /\ IF Memoized(fn)
              THEN /\ cache' = [cache EXCEPT ![fn] = Cached(v)]
                   /\ lock' = [lock EXCEPT ![fn] = 0]
              ELSE UNCHANGED <<cache, lock>>
           /\ sess' = [sess EXCEPT ![s] = Returned(s, v)]
    /\ UNCHANGED <<chat, api_key, pdf_dir, protocol_dir>>

StartupNext ==
    \E s \in Sessions :
        \/ SessionStart(s)
        \/ CacheRead(s)
        \/ CacheLock(s)
        \/ CacheReread(s)
        \/ LoaderBody(s)

StartupSpec == StartupInit /\ [][StartupNext]_vars

TypeOK ==
    /\ pc \in {"Idle", "Streaming", "Committed", "Failed", "Halted"}
    /\ nCalls \in 0..MaxCalls
    /\ Len(streamed) <= MaxIncs
(* ======================================================================= *)
(* Properties                                                              *)
(* ======================================================================= *)
Last(s) == s[Len(s)]

IsPrefix(s, t) == Len(s) <= Len(t) /\ SubSeq(t, 1, Len(s)) = s

RECURSIVE Concat(_)
\* the ordered concatenation of a sequence of strings
Concat(ss) == IF ss = << >> THEN << >> ELSE Head(ss) \o Concat(Tail(ss))

\* a str that is empty or holds whitespace only
IsBlank(s) == s # None /\ \A i \in 1..Len(s) : s[i] = " "

RoleAt(i) == IF i % 2 = 1 THEN "user" ELSE "assistant"

(* C1: in every reachable state the Transcript roles strictly alternate    *)
(* user, assistant, user, ... starting with user.                          *)
C1_RolesAlternate ==
    \A i \in 1..Len(messages) : messages[i].role = RoleAt(i)

(* C2: for every provider call, with N the Transcript length when the      *)
(* payload is built, the payload carries the bundle's documents iff N = 1; *)
(* for N # 1 no entry of the payload holds a document item.                *)
C2_DocsIffFirst ==
    pc = "Streaming" =>
        /\ Len(messages) = 1 => DocItemsOf(api_messages) = pdf_contents
        /\ Len(messages) # 1 => DocItemsOf(api_messages) = << >>
        /\ DocItemsOf(api_messages) # << >> => Len(messages) = 1

C2_Witness ==
    /\ pc = "Streaming"
    /\ Len(messages) = 3
    /\ Len(pdf_contents) = 2
    /\ docCalls = 1

(* C3 as stated: over the whole session the documents appear in exactly    *)
(* one provider call, the one for the session's first user turn.           *)
C3_DocsOncePerSession ==
    (nCalls >= 1 /\ pdf_contents # << >>) => docCalls = 1

(* C3 as amended: among the calls issued since the Transcript was last     *)
(* empty (session start or clear-history) at most one carries documents,   *)
(* and it is the first of them; with a non-empty bundle exactly one does.  *)
C3_DocsOncePerConversation ==
    /\ convDocCalls <= 1
    /\ (pc = "Streaming" /\ DocItemsOf(api_messages) # << >>) => convCalls = 1
    /\ (convCalls >= 1 /\ pdf_contents # << >>) => convDocCalls = 1

C3_Witness ==
    /\ pdf_contents # << >>
    /\ docCalls = 2
    /\ convCalls = 1
    /\ pc = "Streaming"
(* C4: a provider call that fails, before the first increment or           *)
(* mid-stream, appends no assistant Turn and commits no partial text: the  *)
(* Transcript is the one the call was issued with, ending with the         *)
(* submitted user Turn, and the next input is still accepted.              *)
C4_FailureLeavesTranscript ==
    /\ [][(pc = "Streaming" /\ pc' = "Failed") =>
             /\ messages' = messages
             /\ Last(messages') = [role |-> "user", content |-> prompt']]_vars
    /\ [](pc = "Failed" =>
             /\ Last(messages).role = "user"
             /\ (nCalls < MaxCalls =>
                    ENABLED (\E p \in PromptInputs : Truthy(p) /\ ChatInput(p))))

C4_Witness ==
    /\ pc = "Failed"
    /\ full_response # << >>
    /\ nCalls < MaxCalls

(* C5: the assistant Turn committed by a completed call holds the exact    *)
(* ordered concatenation of the increments streamed for that call, and     *)
(* not the continuation marker shown while streaming.                      *)
C5_CommitIsConcatenation ==
    pc = "Committed" =>
        /\ Last(messages) = [role |-> "assistant", content |-> Concat(streamed)]
        /\ \A i \in 1..Len(Last(messages).content) :
              Last(messages).content[i] # Marker[1]
        /\ placeholder = Last(messages).content

C5_Witness ==
    /\ pc = "Committed"
    /\ nCalls = 2
    /\ Len(streamed) = 2
    /\ streamed[1] # streamed[2]

(* C6: clear-history empties the Transcript and leaves the bundle as it    *)
(* is; every other operation only appends to the Transcript.               *)
C6_ClearOrAppend ==
    [][/\ ClearHistory => (messages' = << >> /\ bundle' = bundle)
       /\ ~ClearHistory => IsPrefix(messages, messages')]_vars

C6_Witness ==
    /\ messages = << >>
    /\ nCalls >= 1
    /\ pdf_contents # << >>
    /\ protocols_text # << >>

(* C7: an input that is empty or whitespace only causes no transition: no  *)
(* user Turn is appended and no provider call is issued.                   *)
C7_BlankInputIgnored ==
    [][(AcceptsInput /\ IsBlank(prompt')) =>
          /\ messages' = messages
          /\ nCalls' = nCalls
          /\ pc' # "Streaming"]_vars

(* C8: a payload built from a Transcript of length N # 1 has N entries,    *)
(* entry i carrying exactly the role and the plain text of Turn i.         *)
C8_PlainEntryPerTurn ==
    (pc = "Streaming" /\ Len(messages) # 1) =>
        /\ Len(api_messages) = Len(messages)
        /\ \A i \in 1..Len(messages) :
              /\ DOMAIN api_messages[i] = {"role", "content"}
              /\ api_messages[i].role = messages[i].role
              /\ api_messages[i].content = PyStr(messages[i].content)

C8_Witness ==
    /\ pc = "Streaming"
    /\ Len(api_messages) = 3
    /\ api_messages[1].role = "user"
    /\ api_messages[2].role = "assistant"
    /\ api_messages[3].role = "user"
    /\ pdf_contents # << >>

(* C9: a payload built from a Transcript of length 1 with k documents has  *)
(* one entry, of role user, whose content is the k document items in       *)
(* bundle order followed by one text item holding the user's text.         *)
C9_FirstMessageShape ==
    (pc = "Streaming" /\ Len(messages) = 1) =>
        /\ Len(api_messages) = 1
        /\ api_messages[1].role = "user"
        /\ api_messages[1].content.py = "list"
        /\ LET content == api_messages[1].content.val
               k == Len(pdf_contents)
           IN  /\ Len(content) = k + 1
               /\ \A i \in 1..k : content[i] = pdf_contents[i]
               /\ content[k + 1] = [type |-> "text", text |-> messages[1].content]

C9_Witness ==
    /\ pc = "Streaming"
    /\ Len(messages) = 1
    /\ Len(pdf_contents) = 2
    /\ pdf_contents[1] # pdf_contents[2]

(* C10: every accepted input leads back to an input-accepting state: the   *)
(* turn ends Committed or Failed, and a failure does not end the session.  *)
C10_TurnReturnsToInput ==
    (pc = "Streaming") ~> (pc \in {"Committed", "Failed"} /\ AcceptsInput)

C10_Witness ==
    /\ pc = "Failed"
    /\ nCalls = 2
    /\ Len(messages) = 2
\* the number of Turns of role r in the Transcript
TurnsOf(r) == Cardinality({i \in 1..Len(messages) : messages[i].role = r})

(* C11: no retry: each accepted input triggers exactly one provider call,  *)
(* so the calls issued equal the inputs accepted, whether the calls        *)
(* succeeded or failed.                                                    *)
C11_OneCallPerInput ==
    /\ nCalls = nAccepted
    /\ convCalls = TurnsOf("user")

C11_Witness ==
    /\ pc = "Failed"
    /\ nCalls = 2
    /\ nAccepted = 2
    /\ TurnsOf("assistant") = 0
(* C12: the session's bundle is never mutated after it is built: no turn   *)
(* (first-turn assembly, later assembly, success, failure) and no          *)
(* clear-history changes the documents or the protocol text.               *)
C12_BundleNeverMutated ==
    [][pdf_contents' = pdf_contents /\ protocols_text' = protocols_text]_vars

C12_Witness ==
    /\ pc = "Committed"
    /\ nCalls = 2
    /\ convCalls = 1
    /\ Len(pdf_contents) = 2
    /\ protocols_text # << >>
(* C13: without the API credential the start-up halts with a               *)
(* configuration error: no user Turn is ever appended, no payload is       *)
(* built and no provider call is issued in that run.                       *)
C13_NoKeyNoCall ==
    ~Truthy(api_key) =>
        /\ pc = "Halted"
        /\ error = ConfigError
        /\ messages = << >>
        /\ api_messages = << >>
        /\ nAccepted = 0
        /\ nCalls = 0

C13_Witness ==
    /\ api_key = None
    /\ pc = "Halted"
    /\ error = ConfigError
    /\ ~ENABLED Next
(* C14: the directory scan of each loader is executed at most once per     *)
(* process however many sessions start, also when sessions make their      *)
(* first access concurrently, and every session obtains the same bundle.   *)
C14_ScanAtMostOnce ==
    /\ \A fn \in Loaders : scans[fn] <= 1
    /\ \A s \in Sessions :
          sess[s].at = "ready" =>
             /\ sess[s].pdf_contents = load_pdfs(pdf_dir.exists, pdf_dir.files)
             /\ sess[s].protocols_text =
                   load_protocols(protocol_dir.exists, protocol_dir.files)
             /\ \A t \in Sessions :
                   sess[t].at = "ready" =>
                      /\ sess[t].pdf_contents = sess[s].pdf_contents
                      /\ sess[t].protocols_text = sess[s].protocols_text

\* one session is done; another, which had missed the cache before the
\* first stored its result, holds the lock of load_protocols
C14_Witness ==
    \E s, t \in Sessions :
        /\ s # t
        /\ sess[s].at = "ready"
        /\ sess[t].at = "locked"
        /\ sess[t].fn = "load_protocols"
        /\ scans["load_protocols"] = 1
        /\ sess[s].pdf_contents # << >>
        /\ sess[s].protocols_text # << >>
(* C15: with n >= 1 protocol files the sidebar's protocol count, obtained  *)
(* by counting the header markers of the concatenated protocol string,     *)
(* equals n.                                                               *)
C15_ProtocolCountIsFiles ==
    (~ScriptStops /\ protocol_dir.exists /\ Len(protocol_dir.files) >= 1) =>
        /\ protocols_text # << >>
        /\ protocol_count(protocols_text) = Len(protocol_dir.files)
(* C16: on every provider call of a session, not only the first, the       *)
(* system instruction is the fixed block, followed by the fixed header     *)
(* and the protocol text when that text is non-empty.                      *)
C16_SystemMessageEveryCall ==
    pc = "Streaming" =>
        /\ Len(system_message) >= 1
        /\ system_message[1] = Instructions
        /\ protocols_text = << >> => Len(system_message) = 1
        /\ protocols_text # << >> =>
              /\ Len(system_message) = 2 + Len(protocols_text)
              /\ system_message[2] = ProtocolsHeader
              /\ SubSeq(system_message, 3, Len(system_message)) = protocols_text

C16_Witness ==
    /\ pc = "Streaming"
    /\ Len(messages) = 3
    /\ Len(protocol_dir.files) = 2
    /\ Len(system_message) > 2
\* the text an entry of the payload carries: its str content, or the text
\* of the last item of its list content
EntryText(m) ==
    IF m.content.py = "str" THEN m.content.val ELSE Last(m.content.val).text

(* C17: the user Turn is appended before the payload is built: for every   *)
(* provider call the payload is not empty and its last entry has role      *)
(* user and carries exactly the text just submitted.                       *)
C17_PayloadEndsWithInput ==
    pc = "Streaming" =>
        /\ Last(messages) = [role |-> "user", content |-> prompt]
        /\ api_messages # << >>
        /\ Last(api_messages).role = "user"
        /\ EntryText(Last(api_messages)) = prompt

C17_Witness ==
    /\ pc = "Streaming"
    /\ Len(api_messages) = 2
    /\ messages[1].content # messages[2].content
    /\ prompt = <<"a">>
(* C18: the Transcript is empty or starts with a user Turn, every          *)
(* assistant Turn comes right after a user Turn, no two assistant Turns    *)
(* are consecutive, and the assistant Turns never outnumber the user       *)
(* Turns.                                                                  *)
C18_AssistantFollowsUser ==
    /\ messages = << >> \/ messages[1].role = "user"
    /\ \A i \in 1..Len(messages) :
          messages[i].role = "assistant" =>
              (i > 1 /\ messages[i - 1].role = "user")
    /\ \A i \in 1..(Len(messages) - 1) :
          ~(messages[i].role = "assistant" /\ messages[i + 1].role = "assistant")
    /\ TurnsOf("assistant") <= TurnsOf("user")

C18_Witness ==
    /\ Len(messages) = 3
    /\ messages[1].role = "user"
    /\ messages[2].role = "user"
    /\ messages[3].role = "assistant"
(* C19: whenever an assistant Turn is committed, the reference documents   *)
(* were delivered by a successful call of the current conversation: the    *)
(* call that produced the Turn carried them, or an earlier call since the  *)
(* last clear-history (or session start) carried them and completed.       *)
C19_AnswersHaveDocuments ==
    (pc = "Committed" /\ pdf_contents # << >>) => convDelivered
====
